---- MODULE Spec2Model ----
(***************************************************************************)
(* Model of the text-normalisation core of dmptool-works-matching          *)
(* (src/src/core.rs): parse_name with its fallback split,                  *)
(* revert_inverted_index and strip_markup, together with the process-wide  *)
(* diagnostic sink the functions write to through warn!.                   *)
(*                                                                         *)
(* Strings are sequences of code points, so that trimming, splitting and   *)
(* the lexicographic comparison of words are computed, not assumed.        *)
(* Option<T> is a sequence of length 0 (None) or 1 (Some).                 *)
(***************************************************************************)
EXTENDS Integers, Sequences, FiniteSets

(* ---------------------------- bounds ----------------------------------- *)

\* longest text handed to parse_name and to strip_markup
MaxLen == 4
\* largest token position that occurs in an inverted index
MaxPos == 2
\* the calls stop once the diagnostic sink holds this many records
MaxLog == 2

(* ---------------------------- strings ---------------------------------- *)

\* the code points of the characters the inputs are built from
CH == [tab |-> 9, sp |-> 32, comma |-> 44, lt |-> 60, gt |-> 62, a |-> 97, b |-> 98]

None == <<>>
Some(v) == <<v>>

\* all strings over the characters cs of length at most n
StringsUpTo(cs, n) == UNION {[1..k -> cs] : k \in 0..n}

\* char::is_whitespace, on the characters of the model
is_whitespace(c) == c \in {CH.tab, CH.sp}

RECURSIVE trim_start(_)
trim_start(s) ==
    IF s # <<>> /\ is_whitespace(s[1]) THEN trim_start(Tail(s)) ELSE s

RECURSIVE trim_end(_)
trim_end(s) ==
    IF s # <<>> /\ is_whitespace(s[Len(s)])
    THEN trim_end(SubSeq(s, 1, Len(s) - 1))
    ELSE s

\* str::trim
trim(s) == trim_end(trim_start(s))

\* index of the first occurrence of d in s at or after i, 0 when there is none
RECURSIVE find(_, _, _)
find(s, d, i) ==
    IF i > Len(s) THEN 0
    ELSE IF s[i] = d THEN i
    ELSE find(s, d, i + 1)

\* index of the last occurrence of d in s at or before i, 0 when there is none
RECURSIVE rfind(_, _, _)
rfind(s, d, i) ==
    IF i < 1 THEN 0
    ELSE IF s[i] = d THEN i
    ELSE rfind(s, d, i - 1)

\* str::split_once: the text before and after the first d
split_once(s, d) ==
    LET i == find(s, d, 1)
    IN  IF i = 0 THEN None
        ELSE Some(<<SubSeq(s, 1, i - 1), SubSeq(s, i + 1, Len(s))>>)

\* str::rsplit_once: the text before and after the last d
rsplit_once(s, d) ==
    LET i == rfind(s, d, Len(s))
    IN  IF i = 0 THEN None
        ELSE Some(<<SubSeq(s, 1, i - 1), SubSeq(s, i + 1, Len(s))>>)

\* the order of String: lexicographic on the code points, a proper prefix
\* being smaller
RECURSIVE str_gt(_, _)
str_gt(x, y) ==
    IF x = <<>> THEN FALSE
    ELSE IF y = <<>> THEN TRUE
    ELSE IF x[1] # y[1] THEN x[1] > y[1]
    ELSE str_gt(Tail(x), Tail(y))

\* slice::join: the strings of ws with sep between neighbours
RECURSIVE join(_, _)
join(ws, sep) ==
    IF ws = <<>> THEN <<>>
    ELSE IF Len(ws) = 1 THEN ws[1]
    ELSE ws[1] \o sep \o join(Tail(ws), sep)

(* ---------------------------- parse_name ------------------------------- *)

\* the characters of the names handed to parse_name
NameChars == {CH.tab, CH.sp, CH.comma, CH.a, CH.b}

\* the text argument of parse_name: Option<&str>
NameTexts == {None} \cup {Some(s) : s \in StringsUpTo(NameChars, MaxLen)}

\* what human_name's Name::parse can answer for a text it accepts: the
\* accessors first_initial, given_name, middle_initials, middle_names,
\* surname and display_full of the parsed person
Persons ==
    { [first_initial |-> CH.a, given_name |-> Some(<<CH.a>>),
       middle_initials |-> None, middle_names |-> None,
       surname |-> <<CH.b>>, display_full |-> <<CH.a, CH.sp, CH.b>>],
      [first_initial |-> CH.b, given_name |-> None,
       middle_initials |-> Some(<<CH.a, CH.b>>),
       middle_names |-> Some(<<<<CH.a>>, <<CH.b>>>>),
       surname |-> <<CH.a>>,
       display_full |-> <<CH.b, CH.sp, CH.a, CH.sp, CH.b, CH.sp, CH.a>>] }

\* the answers of Name::parse: no parse, or a person
ParseAnswers == {None} \cup {Some(p) : p \in Persons}

ParsedName(fi, gn, mi, mn, sn, fl) ==
    [first_initial |-> fi, given_name |-> gn, middle_initials |-> mi,
     middle_names |-> mn, surname |-> sn, full |-> fl]

\* the ParsedName of an absent or blank text
AllAbsent == ParsedName(None, None, None, None, None, None)

\* a slip in name_parts: the space is looked for before the comma
name_parts_space_first(text) ==
    LET c == split_once(text, CH.comma)
        r == rsplit_once(text, CH.sp)
    IN  IF r # None THEN Some(<<trim(r[1][1]), trim(r[1][2])>>)
        ELSE IF c # None THEN Some(<<trim(c[1][2]), trim(c[1][1])>>)
        ELSE None

\* the pair (given, surname) of fallback_parse_name's name_parts
name_parts(text) ==
    LET c == split_once(text, CH.comma)
        r == rsplit_once(text, CH.sp)
    IN  IF c # None THEN Some(<<trim(c[1][2]), trim(c[1][1])>>)
        ELSE IF r # None THEN Some(<<trim(r[1][1]), trim(r[1][2])>>)
        ELSE None

\* a slip in fallback_parse_name: full is the text as it came
fallback_parse_name_verbatim(text) ==
    LET parts == name_parts(text)
    IN  IF parts # None
        THEN <<Some(parts[1][1]), Some(parts[1][2]), text>>
        ELSE <<None, None, text>>

\* fallback_parse_name: (given_name, surname, full)
fallback_parse_name(text) ==
    LET parts == name_parts(text)
    IN  IF parts # None
        THEN <<Some(parts[1][1]), Some(parts[1][2]),
               parts[1][1] \o <<CH.sp>> \o parts[1][2]>>
        ELSE <<None, None, text>>

\* a slip in name_text: the text is tested for emptiness before it is trimmed
name_text_untrimmed_test(text) ==
    IF text = None THEN None
    ELSE IF text[1] = <<>> THEN None
    ELSE Some(trim(text[1]))

\* the trimmed text parse_name works on, None for an absent or blank text
name_text(text) ==
    IF text = None THEN None
    ELSE IF trim(text[1]) = <<>> THEN None
    ELSE Some(trim(text[1]))

\* the record the fallback path writes to the diagnostic sink
WarnFallback == "fallback_parse_name"

\* parse_name, for the text and the answer lib that Name::parse gives for
\* the trimmed text: the ParsedName returned and the records written to the
\* diagnostic sink
parse_name(text, lib) ==
    LET s == name_text(text)
    IN  IF s = None THEN [name |-> AllAbsent, warn |-> <<>>]
        ELSE IF lib # None
        THEN LET person == lib[1]
             IN  [name |-> ParsedName(
                             Some(<<person.first_initial>>),
                             person.given_name,
                             person.middle_initials,
                             IF person.middle_names = None THEN None
                             ELSE Some(join(person.middle_names[1], <<CH.sp>>)),
                             Some(person.surname),
                             Some(person.display_full)),
                  warn |-> <<>>]
        ELSE LET f == fallback_parse_name(s[1])
             IN  [name |-> ParsedName(None, f[1], None, None, f[2], Some(f[3])),
                  warn |-> <<WarnFallback>>]

(* ------------------------ revert_inverted_index ------------------------ *)

\* the words of the inverted indexes: a blank word, a word and a longer word
\* it is a prefix of
IndexWords == {<<CH.sp>>, <<CH.a>>, <<CH.a, CH.b>>}

\* the position lists of a word: up to two positions, in any order
PosLists ==
    {<<>>} \cup {<<p>> : p \in 0..MaxPos}
           \cup {<<p, q>> : p \in 0..MaxPos, q \in 0..MaxPos}

\* the JSON value of a member of the object; type "absent" says that the
\* object has no member of that name
JsonValues ==
    {[type |-> "absent", items |-> <<>>], [type |-> "string", items |-> <<>>]}
    \cup {[type |-> "array", items |-> l] : l \in PosLists \cup {<<0 - 1>>}}

\* the byte buffers: the zero-length buffer, bytes that are not JSON, and
\* the JSON objects with members named by IndexWords
Buffers ==
    { [kind |-> k, members |-> [w \in IndexWords |-> [type |-> "absent", items |-> <<>>]]]
        : k \in {"empty", "malformed"} }
    \cup {[kind |-> "object", members |-> m] : m \in [IndexWords -> JsonValues]}

\* the text argument of revert_inverted_index: Option<&[u8]>
ByteTexts == {None} \cup {Some(b) : b \in Buffers}

\* a JSON value that deserializes into Vec<u32>
is_u32_list(v) ==
    /\ v.type = "array"
    /\ \A i \in 1..Len(v.items) : v.items[i] >= 0

EmptyMap == [w \in {} |-> <<>>]

\* a lenient decoder: it keeps the members that are lists of positions and
\* skips the others
from_slice_lenient(buf) ==
    LET keys == {w \in IndexWords : is_u32_list(buf.members[w])}
    IN  IF buf.kind = "object"
        THEN [ok |-> TRUE, map |-> [w \in keys |-> buf.members[w].items]]
        ELSE [ok |-> FALSE, map |-> EmptyMap]

\* serde_json::from_slice::<HashMap<String, Vec<u32>>>: Ok with the map, or Err
from_slice(buf) ==
    LET keys == {w \in IndexWords : buf.members[w].type # "absent"}
    IN  IF buf.kind = "object" /\ \A w \in keys : is_u32_list(buf.members[w])
        THEN [ok |-> TRUE, map |-> [w \in keys |-> buf.members[w].items]]
        ELSE [ok |-> FALSE, map |-> EmptyMap]

\* the record the decode failure writes to the diagnostic sink
WarnInvalidJson == "revert_inverted_index: invalid json"

\* a slip in revert_decode: a member that is no list of positions is skipped
\* and the loop is entered with the others
revert_decode_skips_bad_members(bytes) ==
    IF bytes = None THEN [go |-> FALSE, map |-> EmptyMap, warn |-> <<>>]
    ELSE IF bytes[1].kind = "empty"
    THEN [go |-> FALSE, map |-> EmptyMap, warn |-> <<>>]
    ELSE LET d == from_slice_lenient(bytes[1])
         IN  IF d.ok THEN [go |-> TRUE, map |-> d.map, warn |-> <<>>]
             ELSE [go |-> FALSE, map |-> EmptyMap, warn |-> <<WarnInvalidJson>>]

\* a slip in revert_decode: the zero-length buffer is handed to the decoder
revert_decode_no_empty_check(bytes) ==
    IF bytes = None THEN [go |-> FALSE, map |-> EmptyMap, warn |-> <<>>]
    ELSE LET d == from_slice(bytes[1])
         IN  IF d.ok THEN [go |-> TRUE, map |-> d.map, warn |-> <<>>]
             ELSE [go |-> FALSE, map |-> EmptyMap, warn |-> <<WarnInvalidJson>>]

\* the head of revert_inverted_index, up to the decoded map: what is
\* returned at once (go = FALSE) with the records written to the sink, or the
\* map the loop is entered with (go = TRUE)
revert_decode(bytes) ==
    IF bytes = None THEN [go |-> FALSE, map |-> EmptyMap, warn |-> <<>>]
    ELSE IF bytes[1].kind = "empty"
    THEN [go |-> FALSE, map |-> EmptyMap, warn |-> <<>>]
    ELSE LET d == from_slice(bytes[1])
         IN  IF d.ok THEN [go |-> TRUE, map |-> d.map, warn |-> <<>>]
             ELSE [go |-> FALSE, map |-> EmptyMap, warn |-> <<WarnInvalidJson>>]

\* Vec::resize(n, None) of a vector shorter than n
resize(ws, n) == ws \o [i \in 1..(n - Len(ws)) |-> None]

\* a slip in takes_slot: the slot goes to whichever word comes last
takes_slot_last(word, slot) == TRUE

\* the test that lets a word take a slot
takes_slot(word, slot) == slot = None \/ str_gt(word, slot[1])

\* the body of the inner loop: the word claims position pos
place(ws, word, pos) ==
    LET idx == pos
        grown == IF Len(ws) <= idx THEN resize(ws, idx + 1) ELSE ws
    IN  IF takes_slot(word, grown[idx + 1])
        THEN [grown EXCEPT ![idx + 1] = Some(word)]
        ELSE grown

\* the inner loop: the word claims its positions in the order of its list
RECURSIVE place_all(_, _, _)
place_all(ws, word, positions) ==
    IF positions = <<>> THEN ws
    ELSE place_all(place(ws, word, positions[1]), word, Tail(positions))

\* a slip in flatten: an empty slot yields an empty word
flatten_keeps_gaps(ws) ==
    [i \in 1..Len(ws) |-> IF ws[i] = None THEN <<>> ELSE ws[i][1]]

\* words.into_iter().flatten(): the words of the taken slots, in slot order
flatten(ws) ==
    LET taken == SelectSeq(ws, LAMBDA o : o # None)
    IN  [i \in 1..Len(taken) |-> taken[i][1]]

\* the joining loop: a space and the word pushed for every further word
RECURSIVE push_words(_, _)
push_words(out, rest) ==
    IF rest = <<>> THEN out
    ELSE push_words(out \o <<CH.sp>> \o rest[1], Tail(rest))

\* the tail of revert_inverted_index, from the slots to the returned value
revert_join(ws) ==
    LET iter == flatten(ws)
    IN  IF iter = <<>> THEN None
        ELSE LET out == push_words(iter[1], Tail(iter))
                 trimmed == trim(out)
             IN  IF trimmed = <<>> THEN None ELSE Some(trimmed)

(* ----------------------------- strip_markup ---------------------------- *)

\* the characters of the texts handed to strip_markup
MarkupChars == {CH.sp, CH.lt, CH.gt, CH.a, CH.b}

\* the text argument of strip_markup: Option<&str>
MarkupTexts == {None} \cup {Some(s) : s \in StringsUpTo(MarkupChars, MaxLen)}

\* the null_if_equals argument of strip_markup: Option<&[String]>
NullLists ==
    { None, Some(<<>>), Some(<<<<CH.a>>>>),
      Some(<<<<CH.b>>, <<CH.a, CH.sp, CH.b>>>>) }

\* the tag stripper: the text outside <...>; a tag that is never closed runs
\* to the end of the text
RECURSIVE strip_from(_, _)
strip_from(s, in_tag) ==
    IF s = <<>> THEN <<>>
    ELSE IF in_tag
    THEN strip_from(Tail(s), s[1] # CH.gt)
    ELSE IF s[1] = CH.lt THEN strip_from(Tail(s), TRUE)
    ELSE <<s[1]>> \o strip_from(Tail(s), FALSE)

strip_tags(s) == strip_from(s, FALSE)

\* a slip in any_equal: no sentinel ever matches
any_equal_never(values, trimmed) == FALSE

\* values.iter().any(|v| trimmed == v)
any_equal(values, trimmed) == \E i \in 1..Len(values) : values[i] = trimmed

\* a slip in strip_markup: the text is trimmed before the tags are removed
strip_markup_trim_first(text, null_if_equals) ==
    IF text = None THEN None
    ELSE LET stripped == strip_tags(trim(text[1]))
         IN  IF stripped = <<>> THEN None
             ELSE IF null_if_equals # None /\ any_equal(null_if_equals[1], stripped)
             THEN None
             ELSE Some(stripped)

\* strip_markup
strip_markup(text, null_if_equals) ==
    IF text = None THEN None
    ELSE LET stripped == strip_tags(text[1])
             trimmed == trim(stripped)
         IN  IF trimmed = <<>> THEN None
             ELSE IF null_if_equals # None /\ any_equal(null_if_equals[1], trimmed)
             THEN None
             ELSE Some(trimmed)

(* ------------------------------- state --------------------------------- *)

VARIABLES
    pc,              \* "idle" between calls, "build" inside the loop of
                     \* revert_inverted_index, "done" when a call has returned
    call,            \* the function called, "none" between calls
    text,            \* the text argument of parse_name or strip_markup
    null_if_equals,  \* the sentinel argument of strip_markup
    bytes,           \* the argument of revert_inverted_index
    lib,             \* Name::parse's answer for the trimmed text
    name,            \* the ParsedName parse_name returned
    ret,             \* the Option<String> the other two functions returned
    log,             \* the diagnostic sink: the records written to it, in order
    data,            \* revert_inverted_index: the decoded map
    todo,            \* revert_inverted_index: the words the loop has yet to visit
    words            \* revert_inverted_index: the slots

vars == <<pc, call, text, null_if_equals, bytes, lib, name, ret, log, data, todo, words>>

Init ==
    /\ pc = "idle"
    /\ call = "none"
    /\ text = None
    /\ null_if_equals = None
    /\ bytes = None
    /\ lib = None
    /\ name = AllAbsent
    /\ ret = None
    /\ log = <<>>
    /\ data = EmptyMap
    /\ todo = {}
    /\ words = <<>>

\* a call may start: no call is running and the sink has room
CanCall == pc = "idle" /\ Len(log) < MaxLog

\* parse_name(t), Name::parse answering l for the trimmed text
ParseName ==
    /\ CanCall
    /\ \E t \in NameTexts, l \in ParseAnswers :
          LET r == parse_name(t, l)
          IN  /\ call' = "parse_name"
              /\ text' = t
              /\ lib' = l
              /\ name' = r.name
              /\ log' = log \o r.warn
    /\ pc' = "done"
    /\ null_if_equals' = None
    /\ bytes' = None
    /\ ret' = None
    /\ data' = EmptyMap
    /\ todo' = {}
    /\ words' = <<>>

\* revert_inverted_index(b), up to the start of the loop
RevertBegin ==
    /\ CanCall
    /\ \E b \in ByteTexts :
          LET d == revert_decode(b)
          IN  /\ bytes' = b
              /\ pc' = IF d.go THEN "build" ELSE "done"
              /\ data' = d.map
              /\ todo' = DOMAIN d.map
              /\ log' = log \o d.warn
    /\ call' = "revert_inverted_index"
    /\ ret' = None
    /\ words' = <<>>
    /\ text' = None
    /\ null_if_equals' = None
    /\ lib' = None
    /\ name' = AllAbsent

\* one round of the outer loop: the HashMap yields any word not yet visited
RevertWord ==
    /\ pc = "build"
    /\ \E w \in todo :
          /\ words' = place_all(words, w, data[w])
          /\ todo' = todo \ {w}
    /\ UNCHANGED <<pc, call, text, null_if_equals, bytes, lib, name, ret, log, data>>

\* the loop is over: join, trim and return
RevertJoin ==
    /\ pc = "build"
    /\ todo = {}
    /\ ret' = revert_join(words)
    /\ pc' = "done"
    /\ UNCHANGED <<call, text, null_if_equals, bytes, lib, name, log, data, todo, words>>

\* strip_markup(t, n)
StripMarkup ==
    /\ CanCall
    /\ \E t \in MarkupTexts, n \in NullLists :
          /\ text' = t
          /\ null_if_equals' = n
          /\ ret' = strip_markup(t, n)
    /\ call' = "strip_markup"
    /\ pc' = "done"
    /\ bytes' = None
    /\ lib' = None
    /\ name' = AllAbsent
    /\ data' = EmptyMap
    /\ todo' = {}
    /\ words' = <<>>
    /\ UNCHANGED log

\* the caller has the returned value: the arguments and the locals of the
\* call are dropped, the sink keeps its records
Return ==
    /\ pc = "done"
    /\ pc' = "idle"
    /\ call' = "none"
    /\ text' = None
    /\ null_if_equals' = None
    /\ bytes' = None
    /\ lib' = None
    /\ name' = AllAbsent
    /\ ret' = None
    /\ data' = EmptyMap
    /\ todo' = {}
    /\ words' = <<>>
    /\ UNCHANGED log

Next ==
    \/ ParseName
    \/ RevertBegin
    \/ RevertWord
    \/ RevertJoin
    \/ StripMarkup
    \/ Return

Spec == Init /\ [][Next]_vars

(* ------------------- revert_inverted_index: claims --------------------- *)

\* the words among ws that claim position p in the map
Claimants(map, ws, p) ==
    {w \in ws : \E i \in 1..Len(map[w]) : map[w][i] = p}

\* the positions claimed by the words ws of the map
Claimed(map, ws) ==
    UNION {{map[w][i] : i \in 1..Len(map[w])} : w \in ws}

\* the lexicographically greatest word of a non-empty set of words
Greatest(S) == CHOOSE w \in S : \A v \in S : v = w \/ str_gt(w, v)

SetMax(ps) == CHOOSE p \in ps : \A q \in ps : q <= p
SetMin(ps) == CHOOSE p \in ps : \A q \in ps : p <= q

\* the slots as the claim describes them: 1 + the greatest claimed position
\* slots, each holding the greatest of the words ws that claim it
SlotsByMax(map, ws) ==
    LET ps == Claimed(map, ws)
    IN  IF ps = {} THEN <<>>
        ELSE [i \in 1..(SetMax(ps) + 1) |->
                 IF Claimants(map, ws, i - 1) = {} THEN None
                 ELSE Some(Greatest(Claimants(map, ws, i - 1)))]

\* the argument decodes as a JSON object of lists of non-negative integers
Decodable ==
    /\ bytes # None
    /\ bytes[1].kind = "object"
    /\ \A w \in IndexWords :
          \/ bytes[1].members[w].type = "absent"
          \/ /\ bytes[1].members[w].type = "array"
             /\ \A i \in 1..Len(bytes[1].members[w].items) :
                   bytes[1].members[w].items[i] \in Nat

InRevert == call = "revert_inverted_index"

\* C1: whatever words the loop has visited, and in whatever order, every slot
\* holds the lexicographically greatest of the visited words that claim its
\* position (an unclaimed slot is empty); so when the loop is over the slots,
\* and with them the returned string, are those of the mapping alone, the
\* same for every order in which the words were visited.
C1_SlotHoldsGreatestInAnyOrder ==
    InRevert =>
       /\ words = SlotsByMax(data, DOMAIN data \ todo)
       /\ pc = "done" => ret = revert_join(SlotsByMax(data, DOMAIN data))

\* C1 witness: the call has returned a string for a mapping in which three
\* words claim one position and two words claim another
C1_Witness ==
    /\ InRevert /\ pc = "done" /\ ret # None
    /\ \E p, q \in Claimed(data, DOMAIN data) :
          /\ Cardinality(Claimants(data, DOMAIN data, p)) = 3
          /\ Cardinality(Claimants(data, DOMAIN data, q)) = 2

\* the winners of the claimed positions ps, in ascending position order
RECURSIVE Winners(_, _)
Winners(map, ps) ==
    IF ps = {} THEN <<>>
    ELSE LET p == SetMin(ps)
         IN  <<Greatest(Claimants(map, DOMAIN map, p))>> \o Winners(map, ps \ {p})

\* the trimmed single-space join of the winners, absent when it is empty
TrimmedJoin(map) ==
    LET j == trim(join(Winners(map, Claimed(map, DOMAIN map)), <<CH.sp>>))
    IN  IF j = <<>> THEN None ELSE Some(j)

\* C2: for a decodable argument the call returns the trimmed single-space
\* join of the winners of the claimed positions in ascending order, gaps
\* adding nothing; absent exactly when that join is empty; and a returned
\* string is non-empty with no whitespace at either end.
C2_ReturnsTrimmedJoinOfWinners ==
    (InRevert /\ pc = "done" /\ Decodable) =>
       /\ ret = TrimmedJoin(data)
       /\ ret # None =>
             /\ ret[1] # <<>>
             /\ ~is_whitespace(ret[1][1])
             /\ ~is_whitespace(ret[1][Len(ret[1])])

\* C2 witness: a string is returned for a mapping with a gap below a claimed
\* position and a blank word at the first position
C2_Witness ==
    /\ InRevert /\ pc = "done" /\ Decodable /\ ret # None
    /\ Claimed(data, DOMAIN data) = {0, 2}
    /\ Claimants(data, DOMAIN data, 0) = {<<CH.sp>>}

\* C2 second case, reached as well: positions are claimed and the call
\* returns absent, the join being blank
C2_WitnessBlank ==
    /\ InRevert /\ pc = "done" /\ Decodable /\ ret = None
    /\ Claimed(data, DOMAIN data) # {}

\* C3: an absent, zero-length or undecodable argument makes the call return
\* absent at once: the loop is never entered, no slot is built, no word kept.
C3_BadInputReturnsAbsent ==
    (InRevert /\ ~Decodable) =>
       /\ pc = "done"
       /\ ret = None
       /\ words = <<>>
       /\ DOMAIN data = {}

\* C3 witness: the call has returned for a JSON object one member of which is
\* a list of positions and another is not
C3_Witness ==
    /\ InRevert /\ pc = "done" /\ bytes # None /\ ~Decodable
    /\ bytes[1].kind = "object"
    /\ \E w \in IndexWords : is_u32_list(bytes[1].members[w])
                             /\ bytes[1].members[w].items # <<>>

(* --------------------------- parse_name: claims ------------------------ *)

AllWhitespace(s) == \A i \in 1..Len(s) : is_whitespace(s[i])

Has(s, c) == \E i \in 1..Len(s) : s[i] = c

FirstIndex(s, c) == CHOOSE i \in 1..Len(s) : s[i] = c /\ \A j \in 1..(i - 1) : s[j] # c
LastIndex(s, c) == CHOOSE i \in 1..Len(s) : s[i] = c /\ \A j \in (i + 1)..Len(s) : s[j] # c
Before(s, i) == SubSeq(s, 1, i - 1)
After(s, i) == SubSeq(s, i + 1, Len(s))

InParseName == call = "parse_name"

\* the text is absent, empty or blank
BlankText == text = None \/ AllWhitespace(text[1])

\* the call took the fallback path: a text that is not blank, and no parse
OnFallback == InParseName /\ ~BlankText /\ lib = None

\* the fields of a ParsedName
Fields == {"first_initial", "given_name", "middle_initials", "middle_names", "surname", "full"}

\* C4: an absent, empty or blank text yields a ParsedName with all six fields
\* absent, whatever Name::parse would have answered.
C4_BlankTextAllAbsent ==
    (InParseName /\ BlankText) => \A f \in Fields : name[f] = None

\* C4 witness: a call with a blank text of several characters for which the
\* parser would have answered with a person
C4_Witness ==
    /\ InParseName /\ text # None /\ AllWhitespace(text[1]) /\ Len(text[1]) >= 2
    /\ lib # None

\* C5 as stated: on the fallback path a comma splits at the first comma, the
\* left side being the surname and the trimmed right side the given name;
\* else a space splits at the last space, the text before being the given
\* name and the text after the surname; else both are absent and full is the
\* trimmed text.
C5_FallbackSplitsUntrimmedSides ==
    OnFallback =>
       LET s == trim(text[1])
       IN  IF Has(s, CH.comma)
           THEN /\ name.surname = Some(Before(s, FirstIndex(s, CH.comma)))
                /\ name.given_name = Some(trim(After(s, FirstIndex(s, CH.comma))))
           ELSE IF Has(s, CH.sp)
           THEN /\ name.given_name = Some(Before(s, LastIndex(s, CH.sp)))
                /\ name.surname = Some(After(s, LastIndex(s, CH.sp)))
           ELSE /\ name.given_name = None
                /\ name.surname = None
                /\ name.full = Some(s)

\* C5 amended: as above, with both sides of either split trimmed.
C5_FallbackSplitsTrimmedSides ==
    OnFallback =>
       LET s == trim(text[1])
       IN  IF Has(s, CH.comma)
           THEN /\ name.surname = Some(trim(Before(s, FirstIndex(s, CH.comma))))
                /\ name.given_name = Some(trim(After(s, FirstIndex(s, CH.comma))))
           ELSE IF Has(s, CH.sp)
           THEN /\ name.given_name = Some(trim(Before(s, LastIndex(s, CH.sp))))
                /\ name.surname = Some(trim(After(s, LastIndex(s, CH.sp))))
           ELSE /\ name.given_name = None
                /\ name.surname = None
                /\ name.full = Some(s)

\* C5 witness: the fallback has split, at the comma, a text that holds a
\* space before its comma
C5_Witness ==
    /\ OnFallback
    /\ Has(trim(text[1]), CH.comma) /\ Has(trim(text[1]), CH.sp)
    /\ LastIndex(trim(text[1]), CH.sp) < FirstIndex(trim(text[1]), CH.comma)
    /\ name.surname = Some(<<CH.a>>) /\ name.given_name = Some(<<CH.b>>)

\* C6: on the fallback path full is present and the three fields
\* first_initial, middle_initials and middle_names are absent; and when the
\* text holds a comma or a space, full is the returned given name, one
\* space, the returned surname.
C6_FallbackFullIsGivenSpaceSurname ==
    OnFallback =>
       /\ name.full # None
       /\ name.first_initial = None
       /\ name.middle_initials = None
       /\ name.middle_names = None
       /\ (Has(trim(text[1]), CH.comma) \/ Has(trim(text[1]), CH.sp)) =>
             /\ name.given_name # None
             /\ name.surname # None
             /\ name.full = Some(name.given_name[1] \o <<CH.sp>> \o name.surname[1])

\* C6 witness: the fallback has split a text and the rebuilt full differs
\* from the trimmed text
C6_Witness ==
    /\ OnFallback
    /\ Has(trim(text[1]), CH.comma)
    /\ name.given_name = Some(<<CH.b>>) /\ name.surname = Some(<<CH.a>>)
    /\ name.full = Some(<<CH.b, CH.sp, CH.a>>)

\* C7: no field of the returned ParsedName is present with the empty string
\* as its value, and full is never present with a blank value.
C7_NoFieldIsEmptyString ==
    InParseName =>
       /\ \A f \in Fields : name[f] # Some(<<>>)
       /\ name.full # None => ~AllWhitespace(name.full[1])

(* -------------------------- strip_markup: claims ----------------------- *)

InStripMarkup == call = "strip_markup"

\* the tag-stripped, trimmed text of the call
Cleaned == trim(strip_tags(text[1]))

\* the sentinel list is supplied and holds s
IsSentinel(s) ==
    null_if_equals # None /\ \E i \in 1..Len(null_if_equals[1]) : null_if_equals[1][i] = s

\* C8: strip_markup returns absent for an absent text, for a text whose
\* tag-stripped, trimmed form is empty, and for one whose form is in the
\* supplied sentinel list; otherwise it returns exactly that form; a
\* returned string is not empty, has no whitespace at either end and is no
\* sentinel.
C8_StripMarkupResult ==
    InStripMarkup =>
       /\ ret = IF text = None THEN None
                ELSE IF Cleaned = <<>> \/ IsSentinel(Cleaned) THEN None
                ELSE Some(Cleaned)
       /\ ret # None =>
             /\ ret[1] # <<>>
             /\ ~is_whitespace(ret[1][1])
             /\ ~is_whitespace(ret[1][Len(ret[1])])
             /\ ~IsSentinel(ret[1])

\* C8 witness: absent is returned for a text with a tag and blanks around a
\* word that is in the sentinel list
C8_Witness ==
    /\ InStripMarkup /\ text # None /\ ret = None
    /\ Has(text[1], CH.lt) /\ Has(text[1], CH.sp)
    /\ Cleaned = <<CH.a>> /\ IsSentinel(Cleaned)

\* C9: strip_markup is idempotent: stripping a returned string again, with
\* no sentinel list or with one that does not hold it, returns it unchanged.
C9_StripMarkupIdempotent ==
    (InStripMarkup /\ ret # None) =>
       \A n \in NullLists :
          (n = None \/ ~any_equal(n[1], ret[1])) => strip_markup(ret, n) = ret

\* C9 witness: a string was returned that is shorter than the text, which
\* holds a closed tag
C9_Witness ==
    /\ InStripMarkup /\ ret # None
    /\ Has(text[1], CH.lt) /\ Has(text[1], CH.gt)
    /\ Len(ret[1]) < Len(text[1])

(* ------------------------ diagnostic sink: claims ---------------------- *)

\* the call revert_inverted_index was given bytes that fail to decode
DecodeFailed == InRevert /\ bytes # None /\ bytes[1].kind # "empty" /\ ~Decodable

\* C10: the step that starts a call appends exactly one record to the sink
\* when the call is a parse_name that takes the fallback path or a
\* revert_inverted_index whose non-empty argument fails to decode, and
\* leaves the sink alone otherwise; every other step leaves the sink alone.
C10_OneRecordPerFallbackOrDecodeFailure ==
    [][ IF pc = "idle"
        THEN log' = IF OnFallback' THEN Append(log, WarnFallback)
                    ELSE IF DecodeFailed' THEN Append(log, WarnInvalidJson)
                    ELSE log
        ELSE log' = log ]_vars

\* C10 witness: a fallback parse_name has returned and its record follows the
\* record of an earlier decode failure
C10_Witness ==
    /\ OnFallback /\ pc = "done"
    /\ log = <<WarnInvalidJson, WarnFallback>>

====
